---- MODULE Spec2Model ----
(***************************************************************************)
(* The backend-selection layer of the renderer crate: Renderer, Frame and  *)
(* Geometry are closed unions over the two backends (TinySkia, Wgpu).      *)
(* Every operation dispatches on the active variant.  The backends are     *)
(* collaborators: a backend renderer is modelled by the log of the calls   *)
(* it receives, a backend frame by its content and its transform stack.    *)
(* Closures handed to with_save, with_clip, with_layer and                 *)
(* with_transformation are modelled by the steps they may take while their *)
(* scope is open; a panic unwinds the open scopes one at a time and may be *)
(* caught at any level.                                                    *)
(***************************************************************************)
EXTENDS Integers, Sequences, FiniteSets, TLC

VARIABLES
    renderer,   \* the Renderer value: its active variant
    calls,      \* the calls the backend renderers have received, in order
    rstack,     \* open with_layer / with_transformation calls, innermost last
    queue,      \* the Geometry values waiting to be passed to Renderer::draw
    rout,       \* outcome of the last completed Renderer call
    frames,     \* the Frame being drawn into, followed by the open with_clip sub-frames
    origin,     \* which renderer Frame::new was given for frames[1]
    fstack,     \* open with_save / with_clip calls, innermost last
    fout,       \* outcome of the last completed Frame call
    panicking   \* TRUE while a panic is unwinding the call stack

vars == <<renderer, calls, rstack, queue, rout, frames, origin, fstack, fout, panicking>>
rvars == <<renderer, calls, rstack, rout>>
fvars == <<frames, origin, fstack, fout>>

\* ---- bounds of the model
MaxDepth == 2       \* open scopes per call stack
MaxStack == 2       \* saved transforms on one frame's transform stack
MaxTransform == 2   \* transform operations composed onto one current transform
MaxClip == 1        \* open with_clip calls
MaxContent == 1     \* items drawn into one frame, besides clipped sub-frames
MaxLayers == 2      \* Geometry values per Renderer::draw call
MaxCalls == 4       \* length of the backend call log

\* ---- values
Variants == {"TinySkia", "Wgpu"}
Other(v) == IF v = "TinySkia" THEN "Wgpu" ELSE "TinySkia"
Sizes == [width : {20}, height : {10}]
Regions == [x : {0, 5}, y : {0}, width : {10}, height : {10}]
Bounds == {"b1", "b2"}
Transformations == {"t1", "t2"}
Meshes == {"m1", "m2"}
Pipelines == {"p1"}
DrawOps == {"fill", "fill_rectangle", "stroke", "fill_text"}
TransformOps == {"translate", "rotate", "scale", "scale_nonuniform"}
DelegatedOps == {"fill_quad", "clear"}
None == [op |-> "none"]

Last(s) == s[Len(s)]
Front(s) == SubSeq(s, 1, Len(s) - 1)
Top == Len(frames)

\* the sub-frame composited at the parent's own origin
RegionOrigin_zero(region) == [x |-> 0, y |-> 0]

\* Rectangle::size and the origin point taken in with_clip
RegionSize(region) == [width |-> region.width, height |-> region.height]
RegionOrigin(region) == [x |-> region.x, y |-> region.y]

\* ---- the backend frames (iced_tiny_skia::geometry::Frame, iced_wgpu::geometry::Frame)
BackendFrame_new(backend, size) ==
    [backend |-> backend, size |-> size, content |-> <<>>,
     current |-> <<>>, previous |-> <<>>]

push_transform(frame) == [frame EXCEPT !.previous = Append(@, frame.current)]

pop_transform(frame) ==
    [frame EXCEPT !.current = Last(frame.previous), !.previous = Front(frame.previous)]

apply_transform(frame, op) == [frame EXCEPT !.current = Append(@, op)]

draw_item(frame, op) == [frame EXCEPT !.content = Append(@, [op |-> op])]

clip(target, frame, at) ==
    [target EXCEPT !.content =
        Append(@, [op |-> "clip", origin |-> at, size |-> frame.size,
                   content |-> frame.content])]

into_primitive(frame) == [backend |-> frame.backend, content |-> frame.content]

\* ---- Frame
Frame_new(rendererVariant, size) ==
    CASE rendererVariant = "TinySkia" ->
           [variant |-> "TinySkia", frame |-> BackendFrame_new("TinySkia", size)]
      [] rendererVariant = "Wgpu" ->
           [variant |-> "Wgpu", frame |-> BackendFrame_new("Wgpu", size)]

\* delegate!(self, frame, body): the same variant around the changed backend frame
Delegate(self, inner) == [variant |-> self.variant, frame |-> inner]

\* into_geometry wrapping the primitive in the Wgpu variant whatever the frame is
Frame_into_geometry_wgpu(self) ==
    [variant |-> "Wgpu", primitive |-> into_primitive(self.frame)]

Frame_into_geometry(self) ==
    CASE self.variant = "TinySkia" ->
           [variant |-> "TinySkia", primitive |-> into_primitive(self.frame)]
      [] self.variant = "Wgpu" ->
           [variant |-> "Wgpu", primitive |-> into_primitive(self.frame)]

\* the sub-frame with_clip builds from the variant of self
ClipSubFrame(self, region) ==
    CASE self.variant = "TinySkia" ->
           [variant |-> "TinySkia",
            frame |-> BackendFrame_new("TinySkia", RegionSize(region))]
      [] self.variant = "Wgpu" ->
           [variant |-> "Wgpu", frame |-> BackendFrame_new("Wgpu", RegionSize(region))]

SetTop(f) == [frames EXCEPT ![Top] = f]

\* the calls still open when a panic starts: they have had a panic inside them
Panicked(stack) == [i \in DOMAIN stack |-> [stack[i] EXCEPT !.clean = FALSE]]

\* Frame::new(renderer, size); own says whether the reference is to this renderer
FrameNew(own, ov, size) ==
    /\ ~panicking
    /\ frames = <<>>
    /\ fstack = <<>>
    /\ frames' = <<Frame_new(IF own THEN renderer.variant ELSE ov, size)>>
    /\ origin' = [own |-> own]
    /\ fout' = None
    /\ UNCHANGED <<rvars, queue, fstack, panicking>>

\* fill, fill_rectangle, stroke, fill_text
FrameDraw(op) ==
    /\ ~panicking
    /\ frames # <<>>
    /\ Len(frames[Top].frame.content) < MaxContent
    /\ frames' = SetTop(Delegate(frames[Top], draw_item(frames[Top].frame, op)))
    /\ fout' = None
    /\ UNCHANGED <<rvars, queue, origin, fstack, panicking>>

\* translate, rotate, scale, scale_nonuniform
FrameTransform(op) ==
    /\ ~panicking
    /\ frames # <<>>
    /\ Len(frames[Top].frame.current) < MaxTransform
    /\ frames' = SetTop(Delegate(frames[Top], apply_transform(frames[Top].frame, op)))
    /\ fout' = None
    /\ UNCHANGED <<rvars, queue, origin, fstack, panicking>>

\* with_save, up to the call of f
WithSaveEnter ==
    /\ ~panicking
    /\ frames # <<>>
    /\ Len(fstack) < MaxDepth
    /\ Len(frames[Top].frame.previous) < MaxStack
    /\ fstack' = Append(fstack, [kind |-> "save", clean |-> TRUE,
                                 current |-> frames[Top].frame.current,
                                 previous |-> frames[Top].frame.previous])
    /\ frames' = SetTop(Delegate(frames[Top], push_transform(frames[Top].frame)))
    /\ fout' = None
    /\ UNCHANGED <<rvars, queue, origin, panicking>>

\* with_save returning without the pop_transform
WithSaveExit_nopop ==
    /\ ~panicking
    /\ fstack # <<>>
    /\ Last(fstack).kind = "save"
    /\ frames' = frames
    /\ fstack' = Front(fstack)
    /\ fout' = [op |-> "with_save", result |-> "returned", clean |-> Last(fstack).clean,
                inner |-> frames[Top].frame.current,
                before |-> [current |-> Last(fstack).current,
                            previous |-> Last(fstack).previous],
                after |-> [current |-> frames[Top].frame.current,
                           previous |-> frames[Top].frame.previous]]
    /\ UNCHANGED <<rvars, queue, origin, panicking>>

\* with_save, after f has returned
WithSaveExit ==
    /\ ~panicking
    /\ fstack # <<>>
    /\ Last(fstack).kind = "save"
    /\ frames' = SetTop(Delegate(frames[Top], pop_transform(frames[Top].frame)))
    /\ fstack' = Front(fstack)
    /\ fout' = [op |-> "with_save", result |-> "returned", clean |-> Last(fstack).clean,
                inner |-> frames[Top].frame.current,
                before |-> [current |-> Last(fstack).current,
                            previous |-> Last(fstack).previous],
                after |-> [current |-> frames'[Top].frame.current,
                           previous |-> frames'[Top].frame.previous]]
    /\ UNCHANGED <<rvars, queue, origin, panicking>>

\* with_clip, up to the call of f
WithClipEnter(region) ==
    /\ ~panicking
    /\ frames # <<>>
    /\ Len(fstack) < MaxDepth
    /\ Len(frames) <= MaxClip
    /\ Len(frames[Top].frame.content) <= MaxContent
    /\ fstack' = Append(fstack, [kind |-> "clip", clean |-> TRUE, assigned |-> FALSE,
                                 region |-> region, parent |-> frames[Top],
                                 sub |-> ClipSubFrame(frames[Top], region)])
    /\ frames' = Append(frames, ClipSubFrame(frames[Top], region))
    /\ fout' = None
    /\ UNCHANGED <<rvars, queue, origin, panicking>>

\* the match compositing whatever the two variants are
ClipMatches_any(self, frame) == self.variant \in Variants /\ frame.variant \in Variants

\* the match (self, frame) that ends with_clip
ClipMatches(self, frame) ==
    \/ self.variant = "TinySkia" /\ frame.variant = "TinySkia"
    \/ self.variant = "Wgpu" /\ frame.variant = "Wgpu"

\* with_clip, after f has returned
WithClipExit ==
    /\ ~panicking
    /\ fstack # <<>>
    /\ Last(fstack).kind = "clip"
    /\ LET self == frames[Top - 1]
           frame == frames[Top]
           at == RegionOrigin(Last(fstack).region)
       IN IF ClipMatches(self, frame)
          THEN /\ frames' = [Front(frames) EXCEPT
                               ![Top - 1] = Delegate(self, clip(self.frame, frame.frame, at))]
               /\ fout' = [op |-> "with_clip", result |-> "returned",
                           clean |-> Last(fstack).clean,
                           assigned |-> Last(fstack).assigned,
                           region |-> Last(fstack).region, sub |-> frame,
                           before |-> Last(fstack).parent, after |-> frames'[Top - 1]]
               /\ fstack' = Front(fstack)
               /\ UNCHANGED <<rstack, panicking>>
          ELSE /\ frames' = Front(frames)
               /\ fout' = [op |-> "with_clip", result |-> "panicked",
                           clean |-> Last(fstack).clean,
                           assigned |-> Last(fstack).assigned,
                           region |-> Last(fstack).region, sub |-> frame,
                           before |-> Last(fstack).parent, after |-> frames'[Top - 1]]
               /\ fstack' = Panicked(Front(fstack))
               /\ rstack' = Panicked(rstack)
               /\ panicking' = TRUE
    /\ UNCHANGED <<renderer, calls, rout, queue, origin>>

\* the closure of with_clip assigns another Frame to the sub-frame it was given
AssignSubFrame(v, size) ==
    /\ ~panicking
    /\ fstack # <<>>
    /\ Last(fstack).kind = "clip"
    /\ frames' = SetTop(Frame_new(v, size))
    /\ fstack' = [fstack EXCEPT ![Len(fstack)].assigned = TRUE]
    /\ fout' = None
    /\ UNCHANGED <<rvars, queue, origin, panicking>>

\* into_geometry consumes the frame; the Geometry is queued for Renderer::draw
IntoGeometry ==
    /\ ~panicking
    /\ Len(frames) = 1
    /\ fstack = <<>>
    /\ Len(queue) < MaxLayers
    /\ queue' = Append(queue, [geometry |-> Frame_into_geometry(frames[1]),
                               origin |-> origin])
    /\ frames' = <<>>
    /\ fout' = None
    /\ UNCHANGED <<rvars, origin, fstack, panicking>>

\* a closure panics
Panic ==
    /\ ~panicking
    /\ fstack # <<>> \/ rstack # <<>>
    /\ panicking' = TRUE
    /\ fstack' = Panicked(fstack)
    /\ rstack' = Panicked(rstack)
    /\ UNCHANGED <<renderer, calls, queue, rout, frames, origin, fout>>

\* the panic leaves the innermost open Frame scope: nothing after f(..) runs
UnwindFrame ==
    /\ panicking
    /\ fstack # <<>>
    /\ fstack' = Front(fstack)
    /\ IF Last(fstack).kind = "save"
       THEN /\ frames' = frames
            /\ fout' = [op |-> "with_save", result |-> "unwound", clean |-> FALSE,
                        inner |-> frames[Top].frame.current,
                        before |-> [current |-> Last(fstack).current,
                                    previous |-> Last(fstack).previous],
                        after |-> [current |-> frames[Top].frame.current,
                                   previous |-> frames[Top].frame.previous]]
       ELSE /\ frames' = Front(frames)
            /\ fout' = [op |-> "with_clip", result |-> "unwound", clean |-> FALSE,
                        assigned |-> Last(fstack).assigned,
                        region |-> Last(fstack).region, sub |-> frames[Top],
                        before |-> Last(fstack).parent, after |-> frames[Top - 1]]
    /\ UNCHANGED <<rvars, queue, origin, panicking>>

\* std::panic::catch_unwind around the panicking call
Catch ==
    /\ panicking
    /\ panicking' = FALSE
    /\ UNCHANGED <<rvars, queue, fvars>>

\* ---- Renderer
\* the Geometry values a caller may hold besides those of its own frames
Geometries ==
    {[variant |-> v, primitive |-> [backend |-> v, content |-> c]] :
        v \in Variants, c \in {<<>>, <<[op |-> "fill"]>>}}

\* calls the backend can still take while leaving room to end the open scopes
Room == MaxCalls - Len(calls) - Len(rstack)

Call(backend, op) == [backend |-> backend, op |-> op]

\* a caller queues a Geometry it holds for the next Renderer::draw
Submit(g) ==
    /\ ~panicking
    /\ Len(queue) < MaxLayers
    /\ queue' = Append(queue, [geometry |-> g, origin |-> [own |-> FALSE]])
    /\ UNCHANGED <<rvars, fvars, panicking>>

\* the for loop of draw in the arm of `variant`: the log, and whether unreachable!() was hit
RECURSIVE DrawLayers(_, _, _)
DrawLayers(variant, layers, log) ==
    IF layers = <<>>
    THEN [calls |-> log, panicked |-> FALSE]
    ELSE IF Head(layers).variant = variant
         THEN DrawLayers(variant, Tail(layers),
                         Append(log, [backend |-> variant, op |-> "draw_primitive",
                                      primitive |-> Head(layers).primitive]))
         ELSE [calls |-> log, panicked |-> TRUE]

\* draw with the layers of the other variant skipped instead of unreachable!()
RECURSIVE SkipLayers(_, _, _)
SkipLayers(variant, layers, log) ==
    IF layers = <<>>
    THEN [calls |-> log, panicked |-> FALSE]
    ELSE IF Head(layers).variant = variant
         THEN SkipLayers(variant, Tail(layers),
                         Append(log, [backend |-> variant, op |-> "draw_primitive",
                                      primitive |-> Head(layers).primitive]))
         ELSE SkipLayers(variant, Tail(layers), log)

Renderer_draw_skipping(self, layers, log) == SkipLayers(self.variant, layers, log)

\* draw with the layers taken topmost first
Renderer_draw_reversed(self, layers, log) ==
    DrawLayers(self.variant, [i \in DOMAIN layers |-> layers[Len(layers) + 1 - i]], log)

\* <Renderer as geometry::Renderer>::draw
Renderer_draw(self, layers, log) ==
    CASE self.variant = "TinySkia" -> DrawLayers("TinySkia", layers, log)
      [] self.variant = "Wgpu" -> DrawLayers("Wgpu", layers, log)

\* the frame was made by Frame::new from this renderer
FromRenderer(o) == o.own

Layers == [i \in DOMAIN queue |-> queue[i].geometry]

RendererDraw ==
    /\ ~panicking
    /\ Len(queue) <= Room
    /\ LET r == Renderer_draw(renderer, Layers, calls)
       IN /\ calls' = r.calls
          /\ panicking' = r.panicked
          /\ rout' = [op |-> "draw",
                      result |-> IF r.panicked THEN "panicked" ELSE "returned",
                      count |-> Len(queue), forwarded |-> Len(r.calls) - Len(calls),
                      own |-> \A i \in DOMAIN queue : FromRenderer(queue[i].origin)]
          /\ rstack' = IF r.panicked THEN Panicked(rstack) ELSE rstack
          /\ fstack' = IF r.panicked THEN Panicked(fstack) ELSE fstack
    /\ queue' = <<>>
    /\ UNCHANGED <<renderer, frames, origin, fout>>

\* draw_mesh forwarding the mesh whatever the variant
Renderer_draw_mesh_always(self, mesh, log) ==
    Append(log, [backend |-> self.variant, op |-> "draw_primitive",
                 primitive |-> [custom |-> "Mesh", mesh |-> mesh]])

\* Renderer::draw_mesh
Renderer_draw_mesh(self, mesh, log) ==
    CASE self.variant = "TinySkia" -> log
      [] self.variant = "Wgpu" ->
           Append(log, [backend |-> "Wgpu", op |-> "draw_primitive",
                        primitive |-> [custom |-> "Mesh", mesh |-> mesh]])

DrawMesh(mesh) ==
    /\ ~panicking
    /\ Room >= 1
    /\ calls' = Renderer_draw_mesh(renderer, mesh, calls)
    /\ rout' = [op |-> "draw_mesh", variant |-> renderer.variant, mesh |-> mesh,
                result |-> "returned", before |-> Len(calls)]
    /\ UNCHANGED <<renderer, rstack, queue, fvars, panicking>>

\* <Renderer as pipeline::Renderer>::draw_pipeline_primitive
Renderer_draw_pipeline_primitive(self, bounds, primitive, log) ==
    CASE self.variant = "TinySkia" -> log
      [] self.variant = "Wgpu" ->
           Append(log, [backend |-> "Wgpu", op |-> "draw_pipeline_primitive",
                        bounds |-> bounds, primitive |-> primitive])

DrawPipelinePrimitive(bounds, primitive) ==
    /\ ~panicking
    /\ Room >= 1
    /\ calls' = Renderer_draw_pipeline_primitive(renderer, bounds, primitive, calls)
    /\ rout' = [op |-> "draw_pipeline_primitive", variant |-> renderer.variant,
                bounds |-> bounds, primitive |-> primitive,
                result |-> "returned", before |-> Len(calls)]
    /\ UNCHANGED <<renderer, rstack, queue, fvars, panicking>>

\* fill_quad, clear, fill_text: delegate!(self, renderer, renderer.op(..))
Delegated(op) ==
    /\ ~panicking
    /\ Room >= 1
    /\ calls' = Append(calls, Call(renderer.variant, op))
    /\ rout' = None
    /\ UNCHANGED <<renderer, rstack, queue, fvars, panicking>>

\* the start call of a scope: the backend hands out what it had accumulated, named
\* here by the position of the call in the log
StartCall(backend, op, arg) ==
    [backend |-> backend, op |-> op, ret |-> Len(calls) + 1, scope |-> arg]

Scope(kind, arg) ==
    [kind |-> kind, arm |-> renderer.variant, primitives |-> Len(calls) + 1,
     arg |-> arg, clean |-> TRUE, start |-> Len(calls) + 1, depth |-> Len(rstack)]

\* with_layer, up to the call of f
WithLayerEnter(bounds) ==
    /\ ~panicking
    /\ Len(rstack) < MaxDepth
    /\ Room >= 2
    /\ calls' = Append(calls, StartCall(renderer.variant, "start_layer", bounds))
    /\ rstack' = Append(rstack, Scope("layer", bounds))
    /\ rout' = None
    /\ UNCHANGED <<renderer, queue, fvars, panicking>>

\* with_transformation, up to the call of f
WithTransformationEnter(transformation) ==
    /\ ~panicking
    /\ Len(rstack) < MaxDepth
    /\ Room >= 2
    /\ calls' = Append(calls, StartCall(renderer.variant, "start_transformation",
                                        transformation))
    /\ rstack' = Append(rstack, Scope("transformation", transformation))
    /\ rout' = None
    /\ UNCHANGED <<renderer, queue, fvars, panicking>>

\* the inner match accepting whichever variant is active
StillArm_any(self, arm) == self.variant \in Variants

\* the inner match self of with_layer / with_transformation, in the arm entered
StillArm(self, arm) ==
    \/ arm = "TinySkia" /\ self.variant = "TinySkia"
    \/ arm = "Wgpu" /\ self.variant = "Wgpu"

\* the end call given the primitives of the outermost open scope
EndCall_outermost(scope, op) ==
    [backend |-> renderer.variant, op |-> op, primitives |-> rstack[1].primitives,
     arg |-> scope.arg]

\* the end call made after f has returned
EndCall(scope, op) ==
    [backend |-> renderer.variant, op |-> op, primitives |-> scope.primitives,
     arg |-> scope.arg]

ScopeOutcome(scope, op, result, depthAfter) ==
    [op |-> op, result |-> result, clean |-> scope.clean, start |-> scope.start,
     arg |-> scope.arg, arm |-> scope.arm,
     depthBefore |-> scope.depth, depthAfter |-> depthAfter]

\* with_layer, after f has returned
WithLayerExit ==
    /\ ~panicking
    /\ rstack # <<>>
    /\ Last(rstack).kind = "layer"
    /\ IF StillArm(renderer, Last(rstack).arm)
       THEN /\ calls' = Append(calls, EndCall(Last(rstack), "end_layer"))
            /\ rstack' = Front(rstack)
            /\ rout' = ScopeOutcome(Last(rstack), "with_layer", "returned", Len(rstack'))
            /\ UNCHANGED <<fstack, panicking>>
       ELSE /\ calls' = calls
            /\ rstack' = Panicked(Front(rstack))
            /\ fstack' = Panicked(fstack)
            /\ rout' = ScopeOutcome(Last(rstack), "with_layer", "panicked", Len(rstack'))
            /\ panicking' = TRUE
    /\ UNCHANGED <<renderer, queue, frames, origin, fout>>

\* with_transformation, after f has returned
WithTransformationExit ==
    /\ ~panicking
    /\ rstack # <<>>
    /\ Last(rstack).kind = "transformation"
    /\ IF StillArm(renderer, Last(rstack).arm)
       THEN /\ calls' = Append(calls, EndCall(Last(rstack), "end_transformation"))
            /\ rstack' = Front(rstack)
            /\ rout' = ScopeOutcome(Last(rstack), "with_transformation", "returned", Len(rstack'))
            /\ UNCHANGED <<fstack, panicking>>
       ELSE /\ calls' = calls
            /\ rstack' = Panicked(Front(rstack))
            /\ fstack' = Panicked(fstack)
            /\ rout' = ScopeOutcome(Last(rstack), "with_transformation", "panicked", Len(rstack'))
            /\ panicking' = TRUE
    /\ UNCHANGED <<renderer, queue, frames, origin, fout>>

\* the closure of a scope assigns a Renderer of the other variant to *self
SwitchVariant ==
    /\ ~panicking
    /\ rstack # <<>>
    /\ renderer' = [variant |-> Other(renderer.variant)]
    /\ rout' = None
    /\ UNCHANGED <<calls, rstack, queue, fvars, panicking>>

\* the panic leaves the innermost open Renderer scope: no end call is made
UnwindRenderer ==
    /\ panicking
    /\ rstack # <<>>
    /\ rstack' = Front(rstack)
    /\ rout' = ScopeOutcome(Last(rstack),
                            IF Last(rstack).kind = "layer" THEN "with_layer"
                            ELSE "with_transformation", "unwound", Len(rstack'))
    /\ UNCHANGED <<renderer, calls, queue, fvars, panicking>>

RendererNext ==
    \/ \E g \in Geometries : Submit(g)
    \/ RendererDraw
    \/ \E mesh \in Meshes : DrawMesh(mesh)
    \/ \E bounds \in Bounds, primitive \in Pipelines : DrawPipelinePrimitive(bounds, primitive)
    \/ \E op \in DelegatedOps : Delegated(op)
    \/ \E bounds \in Bounds : WithLayerEnter(bounds)
    \/ WithLayerExit
    \/ \E transformation \in Transformations : WithTransformationEnter(transformation)
    \/ WithTransformationExit
    \/ SwitchVariant
    \/ Panic
    \/ UnwindRenderer
    \/ Catch

FrameNext ==
    \/ \E own \in BOOLEAN, ov \in Variants, size \in Sizes : FrameNew(own, ov, size)
    \/ \E op \in DrawOps : FrameDraw(op)
    \/ \E op \in TransformOps : FrameTransform(op)
    \/ WithSaveEnter
    \/ WithSaveExit
    \/ \E region \in Regions : WithClipEnter(region)
    \/ WithClipExit
    \/ \E v \in Variants, size \in Sizes : AssignSubFrame(v, size)
    \/ IntoGeometry
    \/ Panic
    \/ UnwindFrame
    \/ Catch

Init ==
    /\ renderer \in [variant : Variants]
    /\ calls = <<>>
    /\ rstack = <<>>
    /\ queue = <<>>
    /\ rout = None
    /\ frames = <<>>
    /\ origin = [own |-> TRUE]
    /\ fstack = <<>>
    /\ fout = None
    /\ panicking = FALSE

\* closures that compose transforms and nest with_save
SaveNext ==
    \/ \E own \in BOOLEAN, ov \in Variants, size \in Sizes : FrameNew(own, ov, size)
    \/ \E op \in TransformOps : FrameTransform(op)
    \/ WithSaveEnter
    \/ WithSaveExit
    \/ Panic
    \/ UnwindFrame
    \/ Catch

\* closures that fill, stroke, translate, call with_clip and assign to the sub-frame
ClipNext ==
    \/ \E own \in BOOLEAN, ov \in Variants, size \in Sizes : FrameNew(own, ov, size)
    \/ \E op \in {"fill", "stroke"} : FrameDraw(op)
    \/ \E op \in {"translate"} : FrameTransform(op)
    \/ \E region \in Regions : WithClipEnter(region)
    \/ WithClipExit
    \/ \E v \in Variants, size \in Sizes : AssignSubFrame(v, size)
    \/ Panic
    \/ UnwindFrame
    \/ Catch

Next == FrameNext \/ RendererNext

Spec == Init /\ [][Next]_vars

\* drawing queued Geometry values
DrawNext ==
    \/ \E g \in Geometries : Submit(g)
    \/ RendererDraw
    \/ \E op \in DelegatedOps : Delegated(op)
    \/ Catch

\* meshes and custom pipeline primitives among other draw calls
CapabilityNext ==
    \/ \E mesh \in Meshes : DrawMesh(mesh)
    \/ \E bounds \in Bounds, primitive \in Pipelines : DrawPipelinePrimitive(bounds, primitive)
    \/ \E op \in DelegatedOps : Delegated(op)

\* nested layers and transformations whose closures draw, switch the variant or panic
ScopeNext ==
    \/ \E op \in DelegatedOps : Delegated(op)
    \/ \E bounds \in Bounds : WithLayerEnter(bounds)
    \/ WithLayerExit
    \/ \E transformation \in Transformations : WithTransformationEnter(transformation)
    \/ WithTransformationExit
    \/ SwitchVariant
    \/ Panic
    \/ UnwindRenderer
    \/ Catch

\* frames of this or another renderer drawn into, finished and handed to draw;
\* the renderer keeps its variant
PipelineNext ==
    \/ \E own \in BOOLEAN, ov \in Variants, size \in Sizes : FrameNew(own, ov, size)
    \/ \E op \in {"fill"} : FrameDraw(op)
    \/ \E op \in {"translate"} : FrameTransform(op)
    \/ IntoGeometry
    \/ RendererDraw
    \/ Catch

SpecDraw == Init /\ [][DrawNext]_vars
SpecCapability == Init /\ [][CapabilityNext]_vars
SpecScope == Init /\ [][ScopeNext]_vars
SpecPipeline == Init /\ [][PipelineNext]_vars
SpecSave == Init /\ [][SaveNext]_vars
SpecClip == Init /\ [][ClipNext]_vars

\* ---------------------------------------------------------------- properties

\* position of the first layer of another variant than v, Len(layers) + 1 if there is none
FirstMismatch(v, layers) ==
    IF \A i \in DOMAIN layers : layers[i].variant = v
    THEN Len(layers) + 1
    ELSE CHOOSE k \in DOMAIN layers :
            /\ layers[k].variant # v
            /\ \A i \in 1..(k - 1) : layers[i].variant = v

NewCalls == SubSeq(calls', Len(calls) + 1, Len(calls'))

\* C1: Renderer::draw returns normally if and only if every Geometry of the sequence has
\* the renderer's variant; a Geometry of the other variant, at whatever position, makes
\* the call panic, and no primitive of the other variant is forwarded to any backend.
C1_DrawPanicsIffMismatch ==
    [][RendererDraw =>
        /\ panicking' <=> (\E i \in DOMAIN Layers : Layers[i].variant # renderer.variant)
        /\ SubSeq(calls', 1, Len(calls)) = calls
        /\ \A j \in DOMAIN NewCalls :
              /\ NewCalls[j].op = "draw_primitive"
              /\ NewCalls[j].backend = renderer.variant
              /\ NewCalls[j].primitive.backend = renderer.variant]_vars

\* a draw that panicked on a layer that was not the first one
C1_Witness ==
    /\ rout.op = "draw"
    /\ rout.result = "panicked"
    /\ rout.count >= 2
    /\ rout.forwarded >= 1
    /\ panicking

\* C9: Renderer::draw forwards one draw_primitive call per layer to the active backend, in
\* sequence order; with the first mismatched layer at index k the backend has received
\* exactly layers 1..k-1 and the call panics, with none it receives the whole sequence, and
\* an empty sequence causes no call and no panic.
C9_DrawForwardsPrefixInOrder ==
    [][RendererDraw =>
        LET k == FirstMismatch(renderer.variant, Layers)
        IN /\ calls' = calls \o [i \in 1..(k - 1) |->
                                   [backend |-> renderer.variant, op |-> "draw_primitive",
                                    primitive |-> Layers[i].primitive]]
           /\ panicking' = (k <= Len(Layers))
           /\ Layers = <<>> => calls' = calls /\ ~panicking']_vars

\* a draw that forwarded two different layers and returned
C9_Witness ==
    /\ rout.op = "draw"
    /\ rout.result = "returned"
    /\ rout.count = 2
    /\ rout.forwarded = 2
    /\ Len(calls) >= 3
    /\ calls[Len(calls)].primitive # calls[Len(calls) - 1].primitive

\* C4: on a TinySkia renderer draw_mesh and draw_pipeline_primitive return normally, leave
\* the backend's calls unchanged and leave the renderer as it was; on a Wgpu renderer each
\* forwards exactly one call, for draw_mesh a draw_primitive of Custom::Mesh of the mesh.
C4_CapabilityDegradation ==
    [][/\ \A mesh \in Meshes : DrawMesh(mesh) =>
            /\ ~panicking'
            /\ renderer' = renderer
            /\ IF renderer.variant = "TinySkia"
               THEN calls' = calls
               ELSE calls' = Append(calls,
                        [backend |-> "Wgpu", op |-> "draw_primitive",
                         primitive |-> [custom |-> "Mesh", mesh |-> mesh]])
       /\ \A bounds \in Bounds, primitive \in Pipelines :
            DrawPipelinePrimitive(bounds, primitive) =>
            /\ ~panicking'
            /\ renderer' = renderer
            /\ IF renderer.variant = "TinySkia"
               THEN calls' = calls
               ELSE calls' = Append(calls,
                        [backend |-> "Wgpu", op |-> "draw_pipeline_primitive",
                         bounds |-> bounds, primitive |-> primitive])]_vars

\* a mesh dropped by a TinySkia renderer that had drawn before
C4_Witness ==
    /\ rout.op = "draw_mesh"
    /\ rout.variant = "TinySkia"
    /\ rout.result = "returned"
    /\ Len(calls) = rout.before
    /\ calls # <<>>

\* C7: when the closure of with_layer or with_transformation leaves the renderer with
\* another variant than the one active at entry, the call panics after the closure has
\* returned and no end_layer / end_transformation call reaches any backend.
C7_SwitchedVariantPanics ==
    [][(WithLayerExit \/ WithTransformationExit) /\ renderer.variant # Last(rstack).arm =>
        /\ panicking'
        /\ calls' = calls
        /\ rout'.result = "panicked"]_vars

\* a scope that panicked at its end because the closure had switched the variant
C7_Witness ==
    /\ rout.op \in {"with_layer", "with_transformation"}
    /\ rout.result = "panicked"
    /\ renderer.variant # rout.arm
    /\ panicking

IsStart(c) == c.op \in {"start_layer", "start_transformation"}
IsEnd(c) == c.op \in {"end_layer", "end_transformation"}

\* the start call an end call at position i closes, 0 if there is none
RECURSIVE StartBefore(_, _, _)
StartBefore(log, j, open) ==
    IF j = 0 THEN 0
    ELSE IF IsEnd(log[j]) THEN StartBefore(log, j - 1, open + 1)
    ELSE IF IsStart(log[j])
         THEN IF open = 0 THEN j ELSE StartBefore(log, j - 1, open - 1)
    ELSE StartBefore(log, j - 1, open)

Partner(log, i) == StartBefore(log, i - 1, 0)

Paired(start, end) ==
    /\ \/ start.op = "start_layer" /\ end.op = "end_layer"
       \/ start.op = "start_transformation" /\ end.op = "end_transformation"
    /\ end.backend = start.backend
    /\ end.primitives = start.ret
    /\ end.arg = start.scope

\* C8: for a with_layer / with_transformation call that returned normally with no panic
\* inside it, the backend saw the start call first and the end call last, every end call
\* made in between closes the latest start call still open (LIFO) and carries the
\* primitives that start call returned and the bounds / transformation of the same
\* with_ call, every start call in between was closed, and as many scopes are open after
\* the call as before it.
C8_ScopesWellBracketed ==
    rout.op \in {"with_layer", "with_transformation"}
        /\ rout.result = "returned" /\ rout.clean =>
    LET n == Len(calls)
    IN /\ rout.start < n
       /\ IsStart(calls[rout.start])
       /\ calls[rout.start].op =
            (IF rout.op = "with_layer" THEN "start_layer" ELSE "start_transformation")
       /\ calls[rout.start].scope = rout.arg
       /\ IsEnd(calls[n])
       /\ Partner(calls, n) = rout.start
       /\ \A i \in rout.start..n : IsEnd(calls[i]) =>
             /\ Partner(calls, i) >= rout.start
             /\ Paired(calls[Partner(calls, i)], calls[i])
       /\ \A j \in rout.start..n : IsStart(calls[j]) =>
             \E i \in (j + 1)..n : IsEnd(calls[i]) /\ Partner(calls, i) = j
       /\ rout.depthAfter = rout.depthBefore
       /\ Len(rstack) = rout.depthAfter

\* an outer scope that returned around an inner scope of other bounds / transformation
C8_Witness ==
    /\ rout.op \in {"with_layer", "with_transformation"}
    /\ rout.result = "returned"
    /\ rout.clean
    /\ Len(calls) = rout.start + 3
    /\ IsStart(calls[rout.start + 1])
    /\ IsEnd(calls[rout.start + 2])
    /\ calls[rout.start + 1].scope # rout.arg

\* C2: on every exit path of with_save, unwinding included, the depth of the frame's
\* transform stack once control has left with_save is the depth before the call.
C2_PopOnEveryExit ==
    fout.op = "with_save" => Len(fout.after.previous) = Len(fout.before.previous)

\* C3: after a with_save whose closure only composed transforms and nested with_save
\* calls and returned normally, the current transform and the transform stack are what
\* they were before the call.
C3_WithSaveRoundTrip ==
    fout.op = "with_save" /\ fout.result = "returned" /\ fout.clean =>
        /\ fout.after.current = fout.before.current
        /\ fout.after.previous = fout.before.previous

\* a nested with_save that returned after its closure had changed the transform
C3_Witness ==
    /\ fout.op = "with_save"
    /\ fout.result = "returned"
    /\ fout.clean
    /\ fout.before.previous # <<>>
    /\ fout.before.current # <<>>
    /\ fout.inner # fout.before.current

\* the frame that is the parent of the with_clip call open at fstack[i]
ClipParent(i) == frames[Cardinality({j \in 1..i : fstack[j].kind = "clip"})]

\* C6: with_clip gives f a fresh sub-frame of size region.size() with no content and an
\* empty transform stack; while f runs the parent frame is what it was at the call; when
\* with_clip returns the parent has gained exactly one item, the sub-frame's content at
\* origin (region.x, region.y), and when it is left by a panic the parent has gained
\* nothing.
C6_ClipIsolation ==
    /\ \A i \in DOMAIN fstack : fstack[i].kind = "clip" =>
          /\ fstack[i].sub.variant = fstack[i].parent.variant
          /\ fstack[i].sub.frame =
                [backend |-> fstack[i].parent.frame.backend,
                 size |-> [width |-> fstack[i].region.width,
                           height |-> fstack[i].region.height],
                 content |-> <<>>, current |-> <<>>, previous |-> <<>>]
          /\ ClipParent(i) = fstack[i].parent
    /\ fout.op = "with_clip" =>
          IF fout.result = "returned"
          THEN /\ fout.after.variant = fout.before.variant
               /\ fout.after.frame =
                     [fout.before.frame EXCEPT !.content =
                         Append(@, [op |-> "clip",
                                    origin |-> [x |-> fout.region.x, y |-> fout.region.y],
                                    size |-> fout.sub.frame.size,
                                    content |-> fout.sub.frame.content])]
          ELSE fout.after = fout.before

\* a with_clip that returned, compositing drawn content into a parent that had content
C6_Witness ==
    /\ fout.op = "with_clip"
    /\ fout.result = "returned"
    /\ fout.sub.frame.content # <<>>
    /\ fout.before.frame.content # <<>>
    /\ fout.region.x # 0
    /\ Len(fout.after.frame.content) = Len(fout.before.frame.content) + 1

\* C10 as stated: whatever f does, with_clip never reaches its mismatch branch.
C10_ClipNeverPanics ==
    ~(fout.op = "with_clip" /\ fout.result = "panicked")

\* C10 amended: when f has returned, with_clip reaches its mismatch branch and panics
\* exactly when the sub-frame then holds a Frame of another variant than the parent,
\* which is the case only if f assigned to the sub-frame; otherwise it composites.
C10_ClipPanicsIffReassigned ==
    /\ fout.op = "with_clip" /\ fout.result \in {"returned", "panicked"} =>
          /\ (fout.result = "panicked") <=> (fout.sub.variant # fout.before.variant)
          /\ fout.sub.variant # fout.before.variant => fout.assigned
    /\ \A i \in DOMAIN fstack :
          fstack[i].kind = "clip" /\ ~fstack[i].assigned /\ i = Len(fstack) =>
             frames[Top].variant = fstack[i].parent.variant

\* a with_clip that panicked after f had assigned a frame of the other variant
C10_Witness ==
    /\ fout.op = "with_clip"
    /\ fout.result = "panicked"
    /\ fout.assigned
    /\ fout.sub.variant # fout.before.variant
    /\ panicking

\* C5: a Frame made by Frame::new from the renderer has the renderer's variant and keeps
\* it through every operation, into_geometry gives a Geometry of that variant, and so a
\* draw of Geometry values that all come from such frames does not panic.
C5_VariantPreserved ==
    /\ frames # <<>> /\ FromRenderer(origin) =>
          /\ frames[1].variant = renderer.variant
          /\ frames[1].frame.backend = renderer.variant
    /\ \A i \in DOMAIN queue : FromRenderer(queue[i].origin) =>
          /\ queue[i].geometry.variant = renderer.variant
          /\ queue[i].geometry.primitive.backend = renderer.variant
    /\ rout.op = "draw" /\ rout.own => rout.result = "returned"

\* a draw of two Geometry values of the renderer's own frames
C5_Witness ==
    /\ rout.op = "draw"
    /\ rout.own
    /\ rout.count = 2
    /\ rout.forwarded = 2
    /\ rout.result = "returned"
====
